---- MODULE Spec2Model ----
(***************************************************************************)
(* wrapline: reads records from a source, optionally strips whitespace,    *)
(* optionally drops empty records, wraps every surviving record with a     *)
(* delimiter and writes it through a buffered writer to a sink.            *)
(*                                                                         *)
(* Bytes are integers, byte strings are sequences of integers.  One state  *)
(* of the model is the state of main() at the top of its read loop         *)
(* (pc = "loop") or after the process has ended (pc = "exited"); the       *)
(* delimiter resolver and a single processLine call have specifications of *)
(* their own (pc = "parse", pc = "emit").                                  *)
(***************************************************************************)
EXTENDS Integers, Sequences, FiniteSets, TLC

\* ------------------------------------------------------------------ bytes
NUL == 0
NL == 10
SP == 32
QUOTE == 34
BSL == 92
LA == 97

\* ----------------------------------------------------------------- bounds
\* Longest source stream, in bytes.
MaxLen == 3
\* Capacity of the buffered writer (bufio's default is 4096; scaled down so
\* that frames fill the buffer, overflow it and exceed it).
BufSize == 4
\* Most bytes a sink still accepts in the write that fails.
MaxRoom == 1

\* Bytes the source stream is made of.
Alphabet == {NUL, NL, SP, QUOTE, BSL, LA}
\* Resolved wrap delimiters a run is configured with.
Delims == {<<>>, <<QUOTE>>, <<LA, LA>>}

ByteSeqs(n) == UNION {[1..k -> Alphabet] : k \in 0..n}

Min(S) == CHOOSE x \in S : \A y \in S : x <= y
Max(S) == CHOOSE x \in S : \A y \in S : x >= y

VARIABLES
    input,          \* bytes of the source not yet read
    delimiter,      \* resolved wrap delimiter
    stripWS,        \* -s
    skipEmpty,      \* -e
    escapeDelim,    \* -escape
    nullTerminated, \* -0
    delimiterArg,   \* -d, the delimiter token as given
    parseErr,       \* error of parseDelimiter, "nil" when there is none
    bufferedLine,   \* the one-record lookahead
    hasBufferedLine,
    outputBuf,      \* processLine's reusable frame buffer
    wbuf,           \* bufio.Writer: bytes accepted and not yet written
    werr,           \* bufio.Writer: sticky error of the first failed sink write
    sink,           \* bytes the underlying sink holds
    sinkOK,         \* environment: the sink still accepts every write
    sinkRoom,       \* environment: bytes a failing sink still takes
    pc,             \* "parse" | "emit" | "emitted" | "loop" | "exited"
    exitCode,       \* process exit status once pc = "exited"
    source,         \* history: the whole source stream
    nreads,         \* history: ReadBytes calls made so far
    log             \* history: one entry per processLine call

vars == <<input, delimiterArg, parseErr, delimiter, stripWS, skipEmpty, escapeDelim, nullTerminated,
          bufferedLine, hasBufferedLine, outputBuf, wbuf, werr, sink,
          sinkOK, sinkRoom, pc, exitCode, source, nreads, log>>

config == <<delimiterArg, parseErr, delimiter, stripWS, skipEmpty,
           escapeDelim, nullTerminated>>

\* ------------------------------------------------------------ the reader
\* Faulty variant: -0 is ignored, records always end at a newline.
delimByteNewline == NL

\* Separator byte of the run.
delimByte == IF nullTerminated THEN NUL ELSE NL

\* Faulty variant: the bytes returned are not consumed.
ReadBytesNoAdvance(in, sep) ==
    LET at == {i \in 1..Len(in) : in[i] = sep}
    IN  IF at = {}
        THEN [line |-> in, err |-> "EOF", rest |-> <<>>]
        ELSE [line |-> SubSeq(in, 1, Min(at)), err |-> "nil", rest |-> in]

\* bufio.Reader.ReadBytes on an error-free source: the bytes up to and
\* including the first separator, or everything left together with EOF.
ReadBytes(in, sep) ==
    LET at == {i \in 1..Len(in) : in[i] = sep}
    IN  IF at = {}
        THEN [line |-> in, err |-> "EOF", rest |-> <<>>]
        ELSE [line |-> SubSeq(in, 1, Min(at)), err |-> "nil",
              rest |-> SubSeq(in, Min(at) + 1, Len(in))]

\* Faulty variant: the separator is left on the record.
RemoveSepNone(line, sep) == line

\* Remove the separator from the end of what ReadBytes returned.
RemoveSep(line, sep) ==
    IF Len(line) > 0 /\ line[Len(line)] = sep
    THEN SubSeq(line, 1, Len(line) - 1)
    ELSE line

\* ------------------------------------------------------- per-record steps
\* White space as bytes.TrimSpace sees it on ASCII bytes.
IsSpace(b) == b \in {9, 10, 11, 12, 13, 32}

\* Faulty variant: only the leading white space is removed.
TrimSpaceLeftOnly(s) ==
    LET keep == {i \in 1..Len(s) : ~IsSpace(s[i])}
    IN  IF keep = {} THEN <<>> ELSE SubSeq(s, Min(keep), Len(s))

TrimSpace(s) ==
    LET keep == {i \in 1..Len(s) : ~IsSpace(s[i])}
    IN  IF keep = {} THEN <<>> ELSE SubSeq(s, Min(keep), Max(keep))

\* Faulty variant: the record is stripped whether or not -s is given.
ProcessedAlwaysStripped(line) == TrimSpace(line)

\* processedLine of main: the record, stripped when -s is given.
Processed(line) == IF stripWS THEN TrimSpace(line) ELSE line

\* Faulty variant: -e is ignored, every interior record is kept.
InteriorKeepAll(processedLine) == TRUE

\* Drop policy of a record known not to be the last one.
InteriorKeep(processedLine) == Len(processedLine) > 0 \/ ~skipEmpty

\* Faulty variant: an empty record is kept at end of stream.
LastKeepAll(processedLine) == TRUE

\* Drop policy at end of stream.
LastKeep(processedLine) == Len(processedLine) > 0

\* strings.Index, 1-based, 0 when sub does not occur.
Index(s, sub) ==
    LET at == {i \in 1..(Len(s) - Len(sub) + 1) :
                  SubSeq(s, i, i + Len(sub) - 1) = sub}
    IN  IF at = {} THEN 0 ELSE Min(at)

\* Faulty variant: only the first occurrence is replaced.
ReplaceFirst(s, old, new) ==
    LET j == Index(s, old)
    IN  IF j = 0
        THEN s
        ELSE SubSeq(s, 1, j - 1) \o new \o SubSeq(s, j + Len(old), Len(s))

\* strings.ReplaceAll for a non-empty old.
RECURSIVE ReplaceAll(_, _, _)
ReplaceAll(s, old, new) ==
    LET j == Index(s, old)
    IN  IF j = 0
        THEN s
        ELSE SubSeq(s, 1, j - 1) \o new
             \o ReplaceAll(SubSeq(s, j + Len(old), Len(s)), old, new)

\* Faulty variant: the backslashes of the line are escaped as well.
ContentEscapesBackslash(line) ==
    IF escapeDelim /\ Len(delimiter) > 0
    THEN ReplaceAll(ReplaceAll(line, <<BSL>>, <<BSL, BSL>>),
                    delimiter, <<BSL>> \o delimiter)
    ELSE line

\* Content of a frame: the line, escaped if needed.
Content(line) ==
    IF escapeDelim /\ Len(delimiter) > 0
    THEN ReplaceAll(line, delimiter, <<BSL>> \o delimiter)
    ELSE line

\* Faulty variant: the closing delimiter is left out.
FrameNoClose(line) == delimiter \o Content(line) \o <<NL>>

\* The frame processLine builds in outputBuf.
Frame(line) == delimiter \o Content(line) \o delimiter \o <<NL>>

\* ------------------------------------------------------ the buffered writer
\* A writer state is [buf, err, sink, ok, room]: bufio.Writer's buffer and
\* sticky error, and the sink under it.

\* One Write on the underlying sink: [n, err, sink, room].
SinkWrite(w, p) ==
    IF w.ok
    THEN [n |-> Len(p), err |-> FALSE, sink |-> w.sink \o p, room |-> w.room]
    ELSE LET n == IF w.room < Len(p) THEN w.room ELSE Len(p)
         IN  [n |-> n, err |-> TRUE, sink |-> w.sink \o SubSeq(p, 1, n),
              room |-> w.room - n]

\* bufio.Writer.Flush
WriterFlush(w) ==
    IF w.err THEN w
    ELSE IF Len(w.buf) = 0 THEN w
    ELSE LET r == SinkWrite(w, w.buf)
         IN  [w EXCEPT !.sink = r.sink, !.room = r.room, !.err = r.err,
                       !.buf = SubSeq(w.buf, r.n + 1, Len(w.buf))]

\* bufio.Writer.Write; the call returns an error exactly when err is set.
RECURSIVE WriterWrite(_, _)
WriterWrite(w, p) ==
    IF Len(p) > BufSize - Len(w.buf) /\ ~w.err
    THEN IF Len(w.buf) = 0
         THEN \* large write, empty buffer: write directly to the sink
              LET r == SinkWrite(w, p)
              IN  WriterWrite([w EXCEPT !.sink = r.sink, !.room = r.room,
                                        !.err = r.err],
                              SubSeq(p, r.n + 1, Len(p)))
         ELSE LET n == BufSize - Len(w.buf)
                  filled == [w EXCEPT !.buf = @ \o SubSeq(p, 1, n)]
              IN  WriterWrite(WriterFlush(filled), SubSeq(p, n + 1, Len(p)))
    ELSE IF w.err THEN w
    ELSE [w EXCEPT !.buf = @ \o p]

\* The writer state the variables hold.
Writer == [buf |-> wbuf, err |-> werr, sink |-> sink, ok |-> sinkOK,
           room |-> sinkRoom]

\* A run state threaded through the processLine calls of one loop iteration:
\* [w, out, log, failed].
Run0 == [w |-> Writer, out |-> outputBuf, log |-> log, failed |-> FALSE]

\* processLine for record number idx; a call after a failed one is never made
\* (the process has exited).
processLine(r, line, idx) ==
    IF r.failed THEN r
    ELSE LET w2 == WriterWrite(r.w, Frame(line))
         IN  [w |-> w2, out |-> Frame(line),
              log |-> Append(r.log, [idx |-> idx, line |-> line,
                                     out |-> Frame(line)]),
              failed |-> w2.err]

\* ----------------------------------------------------------------- actions
Init ==
    /\ input \in ByteSeqs(MaxLen)
    /\ source = input
    /\ delimiter \in Delims
    /\ delimiterArg = delimiter
    /\ parseErr = "nil"
    /\ stripWS \in BOOLEAN
    /\ skipEmpty \in BOOLEAN
    /\ escapeDelim \in BOOLEAN
    /\ nullTerminated \in BOOLEAN
    /\ bufferedLine = <<>>
    /\ hasBufferedLine = FALSE
    /\ outputBuf = <<>>
    /\ wbuf = <<>>
    /\ werr = FALSE
    /\ sink = <<>>
    /\ sinkOK = TRUE
    /\ sinkRoom = 0
    /\ pc = "loop"
    /\ exitCode = 0
    /\ nreads = 0
    /\ log = <<>>

\* The variables after a run state r.
Commit(r) ==
    /\ wbuf' = r.w.buf
    /\ werr' = r.w.err
    /\ sink' = r.w.sink
    /\ sinkRoom' = r.w.room
    /\ outputBuf' = r.out
    /\ log' = r.log

\* Faulty variant: the pending record gets the end-of-stream drop policy
\* while a further record has just been read.
InteriorRunAsLast ==
    IF hasBufferedLine /\ LastKeep(Processed(bufferedLine))
    THEN processLine(Run0, Processed(bufferedLine), nreads)
    ELSE Run0

\* The pending record handled as an interior record.
InteriorRun ==
    IF hasBufferedLine /\ InteriorKeep(Processed(bufferedLine))
    THEN processLine(Run0, Processed(bufferedLine), nreads)
    ELSE Run0

\* One loop iteration whose read returns a separator-terminated record.
ReadRecord ==
    /\ pc = "loop"
    /\ LET rd == ReadBytes(input, delimByte)
           r == InteriorRun
       IN  /\ rd.err = "nil"
           /\ input' = rd.rest
           /\ nreads' = nreads + 1
           /\ Commit(r)
           /\ IF r.failed
              THEN /\ pc' = "exited"
                   /\ exitCode' = 1
                   /\ UNCHANGED <<bufferedLine, hasBufferedLine>>
              ELSE /\ bufferedLine' = RemoveSep(rd.line, delimByte)
                   /\ hasBufferedLine' = TRUE
                   /\ UNCHANGED <<pc, exitCode>>
    /\ UNCHANGED <<config, sinkOK, source>>

\* Faulty variant: the pending record gets the interior drop policy at end of stream.
PendingAtEOFInterior(r) ==
    IF hasBufferedLine /\ InteriorKeep(Processed(bufferedLine))
    THEN processLine(r, Processed(bufferedLine), nreads)
    ELSE r

\* The pending record handled at end of stream.
PendingAtEOF(r) ==
    IF hasBufferedLine /\ LastKeep(Processed(bufferedLine))
    THEN processLine(r, Processed(bufferedLine), nreads)
    ELSE r

\* Faulty variant: the unterminated fragment is ignored.
FragmentAtEOFIgnored(r, line) == r

\* The unterminated fragment handled at end of stream.
FragmentAtEOF(r, line) ==
    IF Len(line) > 0 /\ LastKeep(Processed(line))
    THEN processLine(r, Processed(line), nreads + 1)
    ELSE r

\* Faulty variant: the fragment is handled before the pending record.
EOFRunSwapped(line) == PendingAtEOF(FragmentAtEOF(Run0, line))

\* The end-of-stream branch of the loop.
EOFRun(line) == FragmentAtEOF(PendingAtEOF(Run0), line)

\* What main's return runs: the deferred writer.Flush(), its error dropped.
Deferred(r) == [r EXCEPT !.w = WriterFlush(r.w)]

\* The loop iteration whose read reports end of stream, and main's return.
ReadEOF ==
    /\ pc = "loop"
    /\ LET rd == ReadBytes(input, delimByte)
           e == EOFRun(RemoveSep(rd.line, delimByte))
           r == IF e.failed THEN e ELSE Deferred(e)
       IN  /\ rd.err = "EOF"
           /\ input' = rd.rest
           /\ nreads' = nreads + 1
           /\ Commit(r)
           /\ pc' = "exited"
           /\ exitCode' = IF e.failed THEN 1 ELSE 0
    /\ UNCHANGED <<config, bufferedLine, hasBufferedLine, sinkOK, source>>

\* A read that fails with an error other than EOF: os.Exit(1).
ReadError ==
    /\ pc = "loop"
    /\ pc' = "exited"
    /\ exitCode' = 1
    /\ nreads' = nreads + 1
    /\ UNCHANGED <<input, config, bufferedLine, hasBufferedLine, outputBuf,
                   wbuf, werr, sink, sinkOK, sinkRoom, source, log>>

\* Environment: from now on the sink fails, after taking room more bytes.
SinkBreaks ==
    /\ pc = "loop"
    /\ sinkOK
    /\ \E room \in 0..MaxRoom :
          /\ sinkOK' = FALSE
          /\ sinkRoom' = room
    /\ UNCHANGED <<input, config, bufferedLine, hasBufferedLine, outputBuf,
                   wbuf, werr, sink, pc, exitCode, source, nreads, log>>

Next == ReadRecord \/ ReadEOF \/ ReadError \/ SinkBreaks

Spec == Init /\ [][Next]_vars

\* ------------------------------------------------- the delimiter resolver
\* Largest value of a signed 32-bit integer, the bitSize given to ParseInt.
MaxInt32 == 2147483647
\* Largest Unicode code point, 0x10FFFF.
MaxRune == 1114111
\* Most repetitions of the digit that ends a token.
MaxRep == 7

\* Faulty variant: the x of the prefix is matched in either case.
HasPrefixFold(s, prefix) ==
    /\ Len(s) >= Len(prefix)
    /\ \A i \in 1..Len(prefix) :
          \/ s[i] = prefix[i]
          \/ (prefix[i] = 120 /\ s[i] = 88)

\* strings.HasPrefix
HasPrefix(s, prefix) ==
    Len(s) >= Len(prefix) /\ SubSeq(s, 1, Len(prefix)) = prefix

\* Value of a character as a digit; 36 when it is none (strconv.ParseUint).
DigitOf(c) ==
    IF 48 <= c /\ c <= 57 THEN c - 48
    ELSE IF 97 <= c /\ c <= 122 THEN c - 97 + 10
    ELSE IF 65 <= c /\ c <= 90 THEN c - 65 + 10
    ELSE 36

\* The digit loop of strconv.ParseUint(s, 16, 32) from character i on.  The
\* unsigned value is kept as n = hi * 65536 + lo; a value above 1<<32 - 1
\* ends the loop with a range error.
RECURSIVE ParseUintFrom(_, _, _, _)
ParseUintFrom(s, i, hi, lo) ==
    IF i > Len(s) THEN [hi |-> hi, lo |-> lo, err |-> "nil"]
    ELSE IF DigitOf(s[i]) >= 16 THEN [hi |-> 0, lo |-> 0, err |-> "syntax"]
    ELSE LET l == lo * 16 + DigitOf(s[i])
             h == hi * 16 + (l \div 65536)
         IN  IF h > 65535
             THEN [hi |-> 65535, lo |-> 65535, err |-> "range"]
             ELSE ParseUintFrom(s, i + 1, h, l % 65536)

\* strconv.ParseUint(s, 16, 32)
ParseUint(s) ==
    IF s = <<>> THEN [hi |-> 0, lo |-> 0, err |-> "syntax"]
    ELSE ParseUintFrom(s, 1, 0, 0)

\* Faulty variant: the range error is dropped and the clamped value kept.
ParseIntClamped(s) ==
    IF s = <<>> THEN [value |-> 0, err |-> "syntax"]
    ELSE LET neg == s[1] = 45
             digits == IF s[1] = 43 \/ s[1] = 45 THEN Tail(s) ELSE s
             un == ParseUint(digits)
         IN  IF un.err = "syntax" THEN [value |-> 0, err |-> "syntax"]
             ELSE IF ~neg /\ un.hi >= 32768
                  THEN [value |-> MaxInt32, err |-> "nil"]
             ELSE IF neg /\ un.hi >= 32768
                  THEN [value |-> -MaxInt32 - 1, err |-> "nil"]
             ELSE [value |-> IF neg THEN -(un.hi * 65536 + un.lo)
                                    ELSE un.hi * 65536 + un.lo,
                   err |-> "nil"]

\* strconv.ParseInt(s, 16, 32): [value, err], err one of "nil", "syntax",
\* "range".
ParseInt(s) ==
    IF s = <<>> THEN [value |-> 0, err |-> "syntax"]
    ELSE LET neg == s[1] = 45
             digits == IF s[1] = 43 \/ s[1] = 45 THEN Tail(s) ELSE s
             un == ParseUint(digits)
         IN  IF un.err = "syntax" THEN [value |-> 0, err |-> "syntax"]
             ELSE IF ~neg /\ un.hi >= 32768
                  THEN [value |-> MaxInt32, err |-> "range"]
             ELSE IF neg /\ (un.hi > 32768 \/ (un.hi = 32768 /\ un.lo > 0))
                  THEN [value |-> -MaxInt32 - 1, err |-> "range"]
             ELSE IF neg /\ un.hi = 32768
                  THEN [value |-> -MaxInt32 - 1, err |-> "nil"]
             ELSE [value |-> IF neg THEN -(un.hi * 65536 + un.lo)
                                    ELSE un.hi * 65536 + un.lo,
                   err |-> "nil"]

\* string(rune(value)): the UTF-8 encoding of the code point, and that of
\* U+FFFD for a value that is no valid code point (a surrogate, a negative
\* value, a value above 0x10FFFF).
RuneString(v) ==
    IF v < 0 \/ v > MaxRune \/ (55296 <= v /\ v <= 57343)
    THEN <<239, 191, 189>>
    ELSE IF v < 128 THEN <<v>>
    ELSE IF v < 2048 THEN <<192 + (v \div 64), 128 + (v % 64)>>
    ELSE IF v < 65536
         THEN <<224 + (v \div 4096), 128 + ((v \div 64) % 64), 128 + (v % 64)>>
    ELSE <<240 + (v \div 262144), 128 + ((v \div 4096) % 64),
           128 + ((v \div 64) % 64), 128 + (v % 64)>>

\* The range check of parseDelimiter.
OutOfRange(value) == value < 0 \/ value > MaxRune

\* parseDelimiter: [delim, err].
parseDelimiter(arg) ==
    IF HasPrefix(arg, <<48, 120>>)
    THEN LET r == ParseInt(SubSeq(arg, 3, Len(arg)))
         IN  IF r.err # "nil"
             THEN [delim |-> <<>>, err |-> "invalid hex value"]
             ELSE IF OutOfRange(r.value)
             THEN [delim |-> <<>>, err |-> "out of valid Unicode range"]
             ELSE [delim |-> RuneString(r.value), err |-> "nil"]
    ELSE [delim |-> arg, err |-> "nil"]

\* Delimiter tokens: an optional 0x or 0X, an optional sign, up to two
\* leading characters and a run of one repeated digit; and the delimiters of
\* the runs as literal tokens.
LeadChars == {48, 49, 50, 55, 56, 68, 69, 70, 71, 102}

Tokens ==
    {p \o s \o l \o [i \in 1..k |-> c] :
        p \in {<<>>, <<48, 120>>, <<48, 88>>},
        s \in {<<>>, <<45>>, <<43>>},
        l \in UNION {[1..n -> LeadChars] : n \in 0..2},
        c \in {48, 70},
        k \in 0..MaxRep}
    \cup Delims

\* A run before its delimiter is resolved.
InitParse ==
    /\ delimiterArg \in Tokens
    /\ parseErr = "nil"
    /\ delimiter = <<>>
    /\ input = <<>>
    /\ source = <<>>
    /\ stripWS = FALSE
    /\ skipEmpty = FALSE
    /\ escapeDelim = FALSE
    /\ nullTerminated = FALSE
    /\ bufferedLine = <<>>
    /\ hasBufferedLine = FALSE
    /\ outputBuf = <<>>
    /\ wbuf = <<>>
    /\ werr = FALSE
    /\ sink = <<>>
    /\ sinkOK = TRUE
    /\ sinkRoom = 0
    /\ pc = "parse"
    /\ exitCode = 0
    /\ nreads = 0
    /\ log = <<>>

\* main resolves the delimiter, and exits with status 1 when that fails.
ParseDelimiter ==
    /\ pc = "parse"
    /\ LET r == parseDelimiter(delimiterArg)
       IN  /\ parseErr' = r.err
           /\ IF r.err # "nil"
              THEN /\ pc' = "exited"
                   /\ exitCode' = 1
                   /\ UNCHANGED delimiter
              ELSE /\ pc' = "loop"
                   /\ delimiter' = r.delim
                   /\ UNCHANGED exitCode
    /\ UNCHANGED <<delimiterArg, stripWS, skipEmpty, escapeDelim,
                   nullTerminated, input, bufferedLine, hasBufferedLine,
                   outputBuf, wbuf, werr, sink, sinkOK, sinkRoom, source,
                   nreads, log>>

NextParse == ParseDelimiter

SpecParse == InitParse /\ [][NextParse]_vars

\* ------------------------------------------------- one call of processLine
\* Longest record handed to processLine.
MaxRec == 4

\* Bytes of a record: the delimiter bytes and the backslash.
EscAlphabet == {QUOTE, BSL, LA}

\* Non-empty delimiters, with and without a backslash, of one and two bytes.
EscDelims == {<<QUOTE>>, <<BSL>>, <<LA, LA>>, <<LA, BSL>>}

EscRecords == UNION {[1..k -> EscAlphabet] : k \in 0..MaxRec}

\* main about to call processLine on a record it keeps, with an empty writer.
InitEscape ==
    /\ bufferedLine \in EscRecords
    /\ hasBufferedLine = TRUE
    /\ delimiter \in EscDelims
    /\ delimiterArg = delimiter
    /\ parseErr = "nil"
    /\ escapeDelim \in BOOLEAN
    /\ stripWS = FALSE
    /\ skipEmpty = FALSE
    /\ nullTerminated = FALSE
    /\ input = <<>>
    /\ source = <<>>
    /\ outputBuf = <<>>
    /\ wbuf = <<>>
    /\ werr = FALSE
    /\ sink = <<>>
    /\ sinkOK = TRUE
    /\ sinkRoom = 0
    /\ pc = "emit"
    /\ exitCode = 0
    /\ nreads = 1
    /\ log = <<>>

\* The call processLine(writer, processedLine, delimiter, escapeDelim, buf).
EmitRecord ==
    /\ pc = "emit"
    /\ Commit(processLine(Run0, Processed(bufferedLine), nreads))
    /\ pc' = "emitted"
    /\ UNCHANGED <<config, input, bufferedLine, hasBufferedLine, sinkOK,
                   exitCode, source, nreads>>

NextEscape == EmitRecord

SpecEscape == InitEscape /\ [][NextEscape]_vars

\* main's read loop as a function of the stream still to read, the separator
\* and the lookahead: the bytes an error-free run hands to the writer from
\* there on.
RECURSIVE LoopOut(_, _, _, _)
LoopOut(in, sep, buffered, has) ==
    LET rd == ReadBytes(in, sep)
        line == RemoveSep(rd.line, sep)
    IN  IF rd.err = "EOF"
        THEN (IF has /\ LastKeep(Processed(buffered))
              THEN Frame(Processed(buffered)) ELSE <<>>)
             \o (IF Len(line) > 0 /\ LastKeep(Processed(line))
                 THEN Frame(Processed(line)) ELSE <<>>)
        ELSE (IF has /\ InteriorKeep(Processed(buffered))
              THEN Frame(Processed(buffered)) ELSE <<>>)
             \o LoopOut(rd.rest, sep, line, TRUE)

\* The bytes an error-free run over src writes, under the flags and the
\* delimiter of the state and the separator sep.
RunOutput(src, sep) == LoopOut(src, sep, <<>>, FALSE)

\* --------------------------------------------- runs with escape disabled
\* Delimiters of a run whose output is fed to a second run: as above, and a
\* newline and a space.
RerunDelims == Delims \cup {<<NL>>, <<SP>>}

\* Source streams without a backslash.
RerunInputs == UNION {[1..k -> Alphabet \ {BSL}] : k \in 0..MaxLen}

\* main before its read loop, started without -escape.
InitRerun ==
    /\ input \in RerunInputs
    /\ source = input
    /\ delimiter \in RerunDelims
    /\ delimiterArg = delimiter
    /\ parseErr = "nil"
    /\ stripWS \in BOOLEAN
    /\ skipEmpty \in BOOLEAN
    /\ escapeDelim = FALSE
    /\ nullTerminated \in BOOLEAN
    /\ bufferedLine = <<>>
    /\ hasBufferedLine = FALSE
    /\ outputBuf = <<>>
    /\ wbuf = <<>>
    /\ werr = FALSE
    /\ sink = <<>>
    /\ sinkOK = TRUE
    /\ sinkRoom = 0
    /\ pc = "loop"
    /\ exitCode = 0
    /\ nreads = 0
    /\ log = <<>>

SpecRerun == InitRerun /\ [][Next]_vars

\* ------------------------------------------------- the records of a stream
\* The stream read as a whole: the separators split it into spans; spans
\* 1..NumTerminated end with a separator, span NumTerminated + 1 is the
\* unterminated fragment (possibly empty).  Record j is the j-th span.
SepAt == {i \in 1..Len(source) : source[i] = delimByte}

NumTerminated == Cardinality(SepAt)

SepPos(j) ==
    IF j = 0 THEN 0
    ELSE IF j > NumTerminated THEN Len(source) + 1
    ELSE CHOOSE p \in SepAt : Cardinality({q \in SepAt : q <= p}) = j

Span(j) == SubSeq(source, SepPos(j - 1) + 1, SepPos(j) - 1)

Fragment == Span(NumTerminated + 1)

\* The fragment is a record of the stream when it holds a byte.
NumRecords == NumTerminated + (IF Len(Fragment) > 0 THEN 1 ELSE 0)

\* Record j is empty after optional stripping.
EmptyRecord(j) == Len(Processed(Span(j))) = 0

\* Record j was handed to processLine.
Emitted(j) == \E i \in DOMAIN log : log[i].idx = j

\* Record j closes the stream: it is the fragment, or the last terminated
\* record when no fragment survives stripping.
IsLast(j) ==
    \/ j = NumTerminated + 1
    \/ j = NumTerminated /\ EmptyRecord(NumTerminated + 1)

\* The run has ended and no read and no sink write has failed.
Clean == pc = "exited" /\ exitCode = 0 /\ ~werr

\* delimiter + content (escaped when escaping applies) + delimiter + newline
WrapOf(line) ==
    delimiter
    \o (IF escapeDelim /\ delimiter # <<>>
        THEN ReplaceAll(line, delimiter, <<BSL>> \o delimiter)
        ELSE line)
    \o delimiter \o <<NL>>

RECURSIVE ConcatWrap(_)
ConcatWrap(l) ==
    IF l = <<>> THEN <<>> ELSE WrapOf(Head(l).line) \o ConcatWrap(Tail(l))

\* ------------------------------------------------------------------ claims
\* C1: on a run that ends without an I/O error the sink holds exactly the
\* frames of the emitted records, delimiter + content + delimiter + newline,
\* in emission order, and no other byte.
C1_SinkIsFrames == Clean => sink = ConcatWrap(log)

\* A clean run that wrote at least two frames, one of them escaped.
C1_Witness ==
    /\ Clean
    /\ Len(log) >= 2
    /\ \E i \in DOMAIN log : Len(log[i].out) > 2 * Len(delimiter) + 1 + Len(log[i].line)
    /\ sink # <<>>

\* C2: a record that is not the last one (a terminated record, or a fragment
\* that is non-empty after optional stripping, follows it) is emitted unless
\* it is empty and skip-empty is enabled; an empty one is emitted as
\* delimiter + delimiter + newline.
C2_InteriorEmitted ==
    Clean =>
        \A j \in 1..NumTerminated :
            (j < NumTerminated \/ ~EmptyRecord(NumTerminated + 1)) =>
                /\ Emitted(j) <=> (~EmptyRecord(j) \/ ~skipEmpty)
                /\ \A i \in DOMAIN log :
                      (log[i].idx = j /\ EmptyRecord(j)) =>
                          log[i].out = delimiter \o delimiter \o <<NL>>

\* C3: the last record of the stream is never emitted when it is empty after
\* optional stripping, whatever the flags.
C3_EmptyLastDropped ==
    \A j \in 1..(NumTerminated + 1) :
        (IsLast(j) /\ EmptyRecord(j)) => ~Emitted(j)

\* A clean run over a stream whose last record is white space only, dropped
\* under strip with skip-empty off, after an earlier record was emitted.
C3_Witness ==
    /\ Clean
    /\ stripWS /\ ~skipEmpty
    /\ NumTerminated >= 2
    /\ Len(Span(NumTerminated)) > 0
    /\ EmptyRecord(NumTerminated)
    /\ IsLast(NumTerminated)
    /\ ~Emitted(NumTerminated)
    /\ Len(log) >= 1

\* C4: no record of a trailing run of empty records is emitted.
C4_TrailingEmptiesDropped ==
    \A j \in 1..NumRecords :
        (\A k \in j..NumRecords : EmptyRecord(k)) => ~Emitted(j)

\* C5: with skip-empty enabled no frame is produced from a record that is
\* empty after optional stripping, and no emitted content is empty.
C5_SkipEmptyDropsAll ==
    skipEmpty =>
        \A i \in DOMAIN log :
            /\ ~EmptyRecord(log[i].idx)
            /\ Len(log[i].line) > 0
            /\ log[i].out # delimiter \o delimiter \o <<NL>>

\* A clean run with skip-empty over a stream with an empty interior record
\* and a later record that was emitted.
C5_Witness ==
    /\ Clean
    /\ skipEmpty
    /\ \E j \in 1..NumTerminated :
          /\ EmptyRecord(j)
          /\ ~IsLast(j)
          /\ ~Emitted(j)
          /\ \E k \in (j + 1)..(NumTerminated + 1) : Emitted(k)

\* c is r without its leading and trailing white space.
IsTrimOf(c, r) ==
    \E a \in 0..Len(r) : \E b \in a..Len(r) :
        /\ c = SubSeq(r, a + 1, b)
        /\ \A i \in 1..a : IsSpace(r[i])
        /\ \A i \in (b + 1)..Len(r) : IsSpace(r[i])
        /\ c # <<>> => (~IsSpace(c[1]) /\ ~IsSpace(c[Len(c)]))

WhiteOnly(r) == Len(r) > 0 /\ \A i \in 1..Len(r) : IsSpace(r[i])

\* C6: with strip enabled every emitted content is its record without leading
\* and trailing white space, and a white-space-only record is dropped where an
\* empty one is (as the last record, and under skip-empty); with strip
\* disabled every emitted content is its record byte for byte and a
\* white-space-only record is emitted.
C6_StripBeforeCheck ==
    /\ \A i \in DOMAIN log :
          IF stripWS
          THEN IsTrimOf(log[i].line, Span(log[i].idx))
          ELSE log[i].line = Span(log[i].idx)
    /\ \A j \in 1..(NumTerminated + 1) :
          WhiteOnly(Span(j)) =>
              /\ (stripWS /\ (skipEmpty \/ IsLast(j))) => ~Emitted(j)
              /\ (~stripWS /\ Clean) => Emitted(j)

\* A clean run with strip enabled that emitted a record after removing white
\* space on both of its sides.
C6_Witness ==
    /\ Clean
    /\ stripWS
    /\ \E i \in DOMAIN log :
          LET r == Span(log[i].idx)
          IN  /\ Len(r) >= 3
              /\ IsSpace(r[1])
              /\ IsSpace(r[Len(r)])
              /\ Len(log[i].line) = Len(r) - 2

\* Start positions of the occurrences of d in s.
OccAt(s, d) ==
    {i \in 1..(Len(s) - Len(d) + 1) : SubSeq(s, i, i + Len(d) - 1) = d}

\* The leftmost non-overlapping occurrences: an occurrence is taken exactly
\* when no taken occurrence to its left overlaps it.
Taken(s, d) ==
    CHOOSE T \in SUBSET OccAt(s, d) :
        \A i \in OccAt(s, d) :
            (i \in T) <=> ~\E j \in T : j < i /\ i < j + Len(d)

\* s with one backslash put in front of every position of T.
BackslashBefore(s, T) ==
    [k \in 1..(Len(s) + Cardinality(T)) |->
        IF \E t \in T : k = t + Cardinality({u \in T : u < t})
        THEN BSL
        ELSE s[CHOOSE i \in 1..Len(s) :
                  k = i + Cardinality({u \in T : u <= i})]]

\* C7: the content between the wrapping delimiters is the record with every
\* leftmost non-overlapping occurrence of the delimiter replaced by backslash
\* + delimiter when escape is enabled and the delimiter is non-empty, and the
\* record unchanged otherwise.
C7_EscapedContent ==
    \A i \in DOMAIN log :
        log[i].out =
            delimiter
            \o (IF escapeDelim /\ Len(delimiter) > 0
                THEN BackslashBefore(log[i].line, Taken(log[i].line, delimiter))
                ELSE log[i].line)
            \o delimiter \o <<NL>>

\* A frame whose record holds two delimiter occurrences, or overlapping ones,
\* written with escape enabled.
C7_Witness ==
    /\ escapeDelim
    /\ Len(delimiter) > 0
    /\ \E i \in DOMAIN log :
          \/ Cardinality(Taken(log[i].line, delimiter)) >= 2
          \/ Cardinality(OccAt(log[i].line, delimiter))
                > Cardinality(Taken(log[i].line, delimiter))

\* C8: a run in which a write to the sink failed reports failure.
C8_WriteFailureReported == (pc = "exited" /\ werr) => exitCode # 0

\* C9: at exit the buffered writer holds no unflushed byte (stated for the
\* runs in which the sink refused no write, where a flush cannot fail).
C9_FlushedAtExit == (pc = "exited" /\ ~werr) => wbuf = <<>>

\* C10: a final fragment with no trailing separator that is non-empty after
\* optional stripping is emitted, wrapped and escaped like any record, after
\* every earlier record.
C10_FragmentEmitted ==
    (Clean /\ ~EmptyRecord(NumTerminated + 1)) =>
        /\ log # <<>>
        /\ LET e == log[Len(log)]
               f == WrapOf(Processed(Fragment))
           IN  /\ e.idx = NumTerminated + 1
               /\ e.line = Processed(Fragment)
               /\ e.out = f
               /\ \A i \in 1..(Len(log) - 1) : log[i].idx < e.idx
               /\ Len(sink) >= Len(f)
               /\ SubSeq(sink, Len(sink) - Len(f) + 1, Len(sink)) = f

\* A clean run that emitted a terminated record and then the fragment.
C10_Witness ==
    /\ Clean
    /\ ~EmptyRecord(NumTerminated + 1)
    /\ Len(log) >= 2
    /\ log[Len(log)].idx = NumTerminated + 1

\* The separator the -0 flag selects, and the one it does not.
SepOfMode == IF nullTerminated THEN NUL ELSE NL

OtherSep == IF nullTerminated THEN NL ELSE NUL

\* The stream is a sequence of records that hold neither a newline nor a NUL,
\* each followed by the separator of the mode.
TerminatedPlain ==
    /\ Len(source) > 0
    /\ source[Len(source)] = SepOfMode
    /\ \A i \in 1..Len(source) : source[i] # OtherSep

\* The same records, each followed by the separator of the other mode.
Twin == [i \in 1..Len(source) |->
            IF source[i] = SepOfMode THEN OtherSep ELSE source[i]]

\* C11: the separator mode changes only how the input is split: a clean run
\* over records each followed by the mode's separator writes the bytes that a
\* run in the other mode writes over the same records each followed by the
\* other separator, and every frame ends with a newline in both modes.
C11_ModeOnlySplits ==
    /\ Clean => sink = RunOutput(source, SepOfMode)
    /\ (Clean /\ TerminatedPlain) => sink = RunOutput(Twin, OtherSep)
    /\ \A i \in DOMAIN log : log[i].out[Len(log[i].out)] = NL

\* A clean null-terminated run over two records that wrote two frames.
C11_Witness ==
    /\ Clean
    /\ nullTerminated
    /\ TerminatedPlain
    /\ Len(log) >= 2
    /\ sink = RunOutput(Twin, NL)

\* C12: the empty stream, and a stream that is a single separator, write no
\* byte to the sink under any configuration.
C12_NoRecordsNoOutput ==
    (source = <<>> \/ source = <<SepOfMode>>) =>
        /\ sink = <<>>
        /\ wbuf = <<>>
        /\ log = <<>>

\* A finished run over a single separator, with skip-empty off.
C12_Witness ==
    /\ pc = "exited"
    /\ exitCode = 0
    /\ ~skipEmpty
    /\ source = <<SepOfMode>>
    /\ nreads = 2
    /\ sink = <<>>

\* ------------------------------------------------ delimiter tokens, read off
\* The token begins with the two characters 0x.
Begins0x(t) == Len(t) >= 2 /\ t[1] = 48 /\ t[2] = 120

\* What follows the 0x.
Remainder(t) == SubSeq(t, 3, Len(t))

IsHexDigit(c) == c \in (48..57) \cup (65..70) \cup (97..102)

HexDigitVal(c) ==
    IF c \in 48..57 THEN c - 48 ELSE IF c \in 65..70 THEN c - 55 ELSE c - 87

\* One or more hex digits.
AllHex(s) == Len(s) > 0 /\ \A i \in 1..Len(s) : IsHexDigit(s[i])

\* s without its sign, and whether the sign is a minus.
Unsigned(s) == IF s # <<>> /\ s[1] \in {43, 45} THEN Tail(s) ELSE s

Negative(s) == s # <<>> /\ s[1] = 45

\* An optional sign and one or more hex digits.
IsHexNumber(s) == AllHex(Unsigned(s))

\* s without its leading zeros.
Significant(s) ==
    LET nz == {i \in 1..Len(s) : s[i] # 48}
    IN  IF nz = {} THEN <<>> ELSE SubSeq(s, Min(nz), Len(s))

RECURSIVE Pow16(_)
Pow16(k) == IF k = 0 THEN 1 ELSE 16 * Pow16(k - 1)

RECURSIVE PlaceSum(_, _)
PlaceSum(s, i) ==
    IF i > Len(s) THEN 0
    ELSE HexDigitVal(s[i]) * Pow16(Len(s) - i) + PlaceSum(s, i + 1)

\* The value of at most seven significant hex digits.
HexValue(s) == PlaceSum(Significant(s), 1)

\* The hex digits s name a value in [0, 0x10FFFF].
InRuneRange(s) ==
    /\ AllHex(s)
    /\ Len(Significant(s)) <= 6
    /\ HexValue(s) <= MaxRune

\* The magnitude of the hex number s fits a signed 32-bit integer.
FitsInt32(s) ==
    LET sig == Significant(Unsigned(s))
    IN  \/ Len(sig) <= 7
        \/ /\ Len(sig) = 8
           /\ \/ HexDigitVal(sig[1]) <= 7
              \/ /\ Negative(s)
                 /\ sig[1] = 56
                 /\ \A i \in 2..8 : sig[i] = 48

IsCont(b) == 128 <= b /\ b <= 191

\* The code point a text of exactly one UTF-8 encoded code point holds; -1
\* when the text is not of that shape.
CodePointOf(d) ==
    IF Len(d) = 1 /\ d[1] < 128 THEN d[1]
    ELSE IF Len(d) = 2 /\ 192 <= d[1] /\ d[1] <= 223 /\ IsCont(d[2])
         THEN (d[1] - 192) * 64 + (d[2] - 128)
    ELSE IF Len(d) = 3 /\ 224 <= d[1] /\ d[1] <= 239 /\ IsCont(d[2])
            /\ IsCont(d[3])
         THEN (d[1] - 224) * 4096 + (d[2] - 128) * 64 + (d[3] - 128)
    ELSE IF Len(d) = 4 /\ 240 <= d[1] /\ d[1] <= 247 /\ IsCont(d[2])
            /\ IsCont(d[3]) /\ IsCont(d[4])
         THEN (d[1] - 240) * 262144 + (d[2] - 128) * 4096
              + (d[3] - 128) * 64 + (d[4] - 128)
    ELSE -1

\* C13: a token that does not begin with 0x is returned unchanged, with no
\* error.
C13_LiteralVerbatim ==
    (pc # "parse" /\ ~Begins0x(delimiterArg)) =>
        /\ parseErr = "nil"
        /\ pc = "loop"
        /\ delimiter = delimiterArg

\* The token 0X22 resolved to itself.
C13_Witness ==
    /\ pc = "loop"
    /\ delimiterArg = <<48, 88, 50, 50>>
    /\ delimiter = delimiterArg

\* C14: a token 0x followed by hex digits of value v in [0, 0x10FFFF]
\* resolves, with no error, to the text of exactly the code point v.
C14_HexIsCodePoint ==
    (pc # "parse" /\ Begins0x(delimiterArg)
        /\ InRuneRange(Remainder(delimiterArg))) =>
        /\ parseErr = "nil"
        /\ pc = "loop"
        /\ CodePointOf(delimiter) = HexValue(Remainder(delimiterArg))

\* C15 as claimed: of the rejected 0x tokens, a remainder that is no hex
\* number gives the invalid-syntax error and a hex number of any magnitude
\* outside the range gives the out-of-range error; no delimiter is returned
\* and no record is processed.
C15_KindByRemainder ==
    (pc = "exited" /\ Begins0x(delimiterArg)) =>
        /\ IsHexNumber(Remainder(delimiterArg))
              => parseErr = "out of valid Unicode range"
        /\ ~IsHexNumber(Remainder(delimiterArg))
              => parseErr = "invalid hex value"
        /\ delimiter = <<>>
        /\ exitCode = 1
        /\ nreads = 0 /\ log = <<>> /\ sink = <<>>

\* C15 as amended: a hex number that fits a signed 32-bit integer and lies
\* outside the range gives the out-of-range error; a remainder that is no hex
\* number, or a hex number that does not fit 32 bits, gives the invalid-syntax
\* error.
C15_KindByRemainder32 ==
    (pc = "exited" /\ Begins0x(delimiterArg)) =>
        /\ (IsHexNumber(Remainder(delimiterArg))
               /\ FitsInt32(Remainder(delimiterArg)))
              => parseErr = "out of valid Unicode range"
        /\ (~IsHexNumber(Remainder(delimiterArg))
               \/ ~FitsInt32(Remainder(delimiterArg)))
              => parseErr = "invalid hex value"
        /\ delimiter = <<>>
        /\ exitCode = 1
        /\ nreads = 0 /\ log = <<>> /\ sink = <<>>

\* A rejected hex number too wide for 32 bits.
C15_Witness ==
    /\ pc = "exited"
    /\ Begins0x(delimiterArg)
    /\ IsHexNumber(Remainder(delimiterArg))
    /\ ~FitsInt32(Remainder(delimiterArg))
    /\ parseErr = "invalid hex value"

\* C16: at the top of the loop the lookahead is empty exactly as long as no
\* terminated record has been read; when it holds a record, that is the most
\* recently read terminated record, it is neither emitted nor dropped yet, and
\* every record read before it has been emitted or dropped.
C16_Lookahead ==
    pc = "loop" =>
        /\ hasBufferedLine <=> nreads > 0
        /\ nreads <= NumTerminated
        /\ input = SubSeq(source, SepPos(nreads) + 1, Len(source))
        /\ ~hasBufferedLine => (bufferedLine = <<>> /\ log = <<>>)
        /\ hasBufferedLine =>
              /\ bufferedLine = Span(nreads)
              /\ ~Emitted(nreads)
              /\ \A i \in DOMAIN log : log[i].idx < nreads
              /\ \A j \in 1..(nreads - 1) :
                    Emitted(j) <=> (~EmptyRecord(j) \/ ~skipEmpty)

\* The loop holds a non-empty second record after the first was emitted.
C16_Witness ==
    /\ pc = "loop"
    /\ hasBufferedLine
    /\ nreads >= 2
    /\ Len(bufferedLine) > 0
    /\ Emitted(1)

\* The stream still to read holds a separator: the next read returns a
\* separator-terminated record.
MoreRecords == \E i \in 1..Len(input) : input[i] = SepOfMode

\* The pending record as a log entry.
PendingEntry ==
    [idx |-> nreads, line |-> Processed(bufferedLine),
     out |-> WrapOf(Processed(bufferedLine))]

\* One step of the run, for C17.
C17_Step ==
    /\ log' # log => (pc = "loop" /\ nreads' = nreads + 1)
    /\ (pc = "loop" /\ nreads' # nreads /\ MoreRecords
            /\ (pc' = "loop" \/ log' # log)) =>
          /\ IF hasBufferedLine
                /\ (Len(Processed(bufferedLine)) > 0 \/ ~skipEmpty)
             THEN log' = Append(log, PendingEntry)
             ELSE log' = log
          /\ pc' = "loop" =>
                (hasBufferedLine' /\ bufferedLine' = Span(nreads'))
    /\ (pc = "loop" /\ nreads' # nreads /\ ~MoreRecords
            /\ (exitCode' = 0 \/ log' # log)) =>
          /\ pc' = "exited"
          /\ (\E i \in DOMAIN log' : log'[i].idx = nreads)
                <=> (hasBufferedLine /\ Len(Processed(bufferedLine)) > 0)

\* C17: the pending record is emitted or dropped only in a step that reads:
\* under the interior policy, the new record becoming pending, when the read
\* returns a terminated record, and under the drop-if-empty rule only when
\* the read observes end of stream.
C17_LastOnlyAtEOF == [][C17_Step]_vars

\* An empty pending record was emitted, skip-empty off, when the next record
\* was read, and the loop goes on.
C17_Witness ==
    /\ pc = "loop"
    /\ ~skipEmpty
    /\ hasBufferedLine
    /\ \E i \in DOMAIN log : log[i].line = <<>> /\ log[i].idx = nreads - 1

\* C18: frames are emitted in stream order, each record at most once, each
\* with its own transformed content; the bytes reach the writer in that order,
\* the pending record's frame before the fragment's.
C18_StreamOrder ==
    /\ \A i, j \in DOMAIN log : i < j => log[i].idx < log[j].idx
    /\ \A i \in DOMAIN log :
          /\ log[i].idx \in 1..(NumTerminated + 1)
          /\ log[i].line = Processed(Span(log[i].idx))
    /\ ~werr => sink \o wbuf = ConcatWrap(log)

\* A clean run that emitted the pending record and then the fragment.
C18_Witness ==
    /\ Clean
    /\ NumTerminated >= 1
    /\ Emitted(NumTerminated)
    /\ Emitted(NumTerminated + 1)
    /\ sink = WrapOf(Processed(Span(NumTerminated)))
              \o WrapOf(Processed(Fragment))

\* C19: once a read or a sink write has failed, the run is over and has
\* failed: nothing more is read or written and the exit status is not 0.
C19_FirstErrorEndsRun == werr => (pc = "exited" /\ exitCode # 0)

\* What is left to do: the bytes still to read, and the one time the sink
\* can break.
Measure == 2 * Len(input) + (IF sinkOK THEN 1 ELSE 0)

\* The guard of a loop iteration holds: the read returns a record or the end
\* of the stream (all else in ReadRecord and ReadEOF assigns the next state).
CanIterate ==
    /\ pc = "loop"
    /\ ReadBytes(input, delimByte).err \in {"nil", "EOF"}
    /\ ReadBytes(input, delimByte).err = "nil" <=> MoreRecords

\* One step of the run, for C20.
C20_Step ==
    /\ CanIterate
    /\ nreads' # nreads => (Len(input') < Len(input) \/ pc' = "exited")
    /\ pc' = "exited" \/ (pc' = "loop" /\ Measure' < Measure)

\* C20: the loop terminates: at the top of the loop the next iteration can
\* always run, every read consumes at least one byte of the stream or ends
\* the run, and every step either ends the run (completed or failed) or
\* lowers a measure bounded by the length of the stream.
C20_Terminates == [][C20_Step]_vars

\* A run that ended after reading three records and the end of stream.
C20_Witness ==
    /\ pc = "exited"
    /\ exitCode = 0
    /\ nreads = 4
    /\ input = <<>>

\* The stream ends with a fragment that is a record: its last byte is not the
\* separator and the fragment is non-empty after optional stripping.
OpenEnded ==
    /\ Len(source) > 0
    /\ source[Len(source)] # delimByte
    /\ ~EmptyRecord(NumTerminated + 1)

\* C21: a missing final separator does not change the result: a clean run
\* over a stream that ends with a non-empty fragment writes the bytes a run
\* writes over the same stream followed by one separator.
C21_FinalSeparatorOptional ==
    (Clean /\ OpenEnded) =>
        sink = RunOutput(source \o <<delimByte>>, delimByte)

\* The content of frame i: its bytes between the wrapping delimiters.
EscapedOf(i) ==
    SubSeq(log[i].out, Len(delimiter) + 1,
           Len(log[i].out) - Len(delimiter) - 1)

\* Every backslash + delimiter of s replaced by the delimiter.
Unescape(s) == ReplaceAll(s, <<BSL>> \o delimiter, delimiter)

HasBackslash(d) == \E k \in 1..Len(d) : d[k] = BSL

\* The escaped content of frame i is the record with one backslash put in
\* front of every leftmost non-overlapping delimiter occurrence, and nothing
\* else added, removed or changed.
OnlyBackslashesAdded(i) ==
    /\ EscapedOf(i) =
          BackslashBefore(log[i].line, Taken(log[i].line, delimiter))
    /\ Len(EscapedOf(i)) =
          Len(log[i].line) + Cardinality(Taken(log[i].line, delimiter))

\* C22 as stated: with escape enabled, for every record and every non-empty
\* delimiter the escaped content only adds one backslash before each
\* delimiter occurrence, and replacing every backslash + delimiter by the
\* delimiter recovers the record.
C22_EscapeReversible ==
    (escapeDelim /\ Len(delimiter) > 0) =>
        \A i \in DOMAIN log :
            /\ OnlyBackslashesAdded(i)
            /\ Unescape(EscapedOf(i)) = log[i].line

\* C22, amended: with escape enabled, for every record and every non-empty
\* delimiter the escaped content only adds one backslash before each
\* delimiter occurrence; when the delimiter holds no backslash, replacing
\* every backslash + delimiter by the delimiter recovers the record.
C22_EscapeReversibleNoBackslash ==
    (escapeDelim /\ Len(delimiter) > 0) =>
        \A i \in DOMAIN log :
            /\ OnlyBackslashesAdded(i)
            /\ ~HasBackslash(delimiter) =>
                  Unescape(EscapedOf(i)) = log[i].line

\* An escaped frame whose record holds a backslash right before one of two
\* delimiter occurrences, with a delimiter free of backslashes.
C22_Witness ==
    /\ pc = "emitted"
    /\ escapeDelim
    /\ Len(delimiter) > 0
    /\ ~HasBackslash(delimiter)
    /\ Len(log) = 1
    /\ LET T == Taken(log[1].line, delimiter)
       IN  /\ Cardinality(T) >= 2
           /\ \E t \in T : t > 1 /\ log[1].line[t - 1] = BSL
    /\ EscapedOf(1) # log[1].line
    /\ Unescape(EscapedOf(1)) = log[1].line

\* The delimiter occurs in no emitted record.
DelimAbsent == \A i \in DOMAIN log : Index(log[i].line, delimiter) = 0

\* For each frame of the run, in order, its content wrapped twice.
RECURSIVE WrappedTwice(_)
WrappedTwice(l) ==
    IF l = <<>> THEN <<>>
    ELSE delimiter \o delimiter \o Head(l).line \o delimiter \o delimiter
         \o <<NL>> \o WrappedTwice(Tail(l))

\* The delimiter survives a second run as part of a record: it is not empty,
\* holds no newline, and has no white space at either end when records are
\* stripped.
DelimKept ==
    /\ Len(delimiter) > 0
    /\ \A k \in 1..Len(delimiter) : delimiter[k] # NL
    /\ stripWS => (~IsSpace(delimiter[1])
                   /\ ~IsSpace(delimiter[Len(delimiter)]))

\* C23 as stated: with escape disabled and a delimiter that occurs in no
\* record, a run of the same configuration over the output of a clean run
\* writes each frame's content wrapped twice, frame by frame in order.
C23_RewrapDoubles ==
    (Clean /\ ~escapeDelim /\ DelimAbsent) =>
        RunOutput(sink, delimByte) = WrappedTwice(log)

\* C23, amended: in newline mode, with escape disabled and a delimiter that
\* occurs in no record, is not empty, holds no newline and, when stripping
\* is enabled, neither begins nor ends with white space, a run of the same
\* configuration over the output of a clean run writes each frame's content
\* wrapped twice, frame by frame in order.
C23_RewrapDoublesNewline ==
    (Clean /\ ~escapeDelim /\ DelimAbsent /\ ~nullTerminated /\ DelimKept) =>
        RunOutput(sink, NL) = WrappedTwice(log)

\* A clean newline-mode run with stripping that wrote two frames, one of them
\* of an empty record, whose output a second run wraps again.
C23_Witness ==
    /\ Clean
    /\ ~escapeDelim
    /\ ~nullTerminated
    /\ stripWS
    /\ DelimAbsent
    /\ DelimKept
    /\ Len(log) = 2
    /\ log[1].line = <<>>
    /\ sink # <<>>
    /\ RunOutput(sink, NL) = WrappedTwice(log)
    /\ RunOutput(sink, NL) # sink

====
